---- MODULE Spec2Model ----
(***************************************************************************)
(* News analysis service (src/index.js): the retention store, the analysis *)
(* cycle with its single-flight flag, the search and analysis clients and  *)
(* the cycle statistics, as a state machine of the Node.js event loop.     *)
(* Every action is one synchronous segment of a handler: from its entry or *)
(* from the resumption of an await up to the next await or its return.     *)
(* Time is counted in hours (Date.now() is in ms; every instant the model  *)
(* uses is a whole hour).  Spec holds the clock still; the clock advances  *)
(* by Tick.                                                                 *)
(***************************************************************************)
EXTENDS Integers, Sequences, FiniteSets, TLC

\* ---------------------------------------------------------------- bounds
MaxAnalyses == 2
MaxTasks == 2
MaxCleanups == 1
MaxTime == 7
MaxCalls == 2
MaxRecords == 11
VariedCalls == 2

\* ------------------------------------------------------- program constants
ARTICLE_RETENTION_HOURS == 6
MaxHistory == 10
IdLength == 16

\* ------------------------------------------------------------- vocabulary
Undefined == -1
NoError == "<none>"
NoText == ""
InProgressError == "Analysis already in progress"
TechnicalError == "Analysis failed due to technical error"
NoAnalysisText == "No analysis available"
NoSummaryText == "No summary available"
Tasks == 1..MaxTasks
TickSteps == {1, ARTICLE_RETENTION_HOURS}

\* ------------------------------------------------------------ articles
\* A string is a sequence of ASCII codes; a missing field is Missing.
Missing == <<-1>>
Rep(b, n) == [i \in 1..n |-> b]
NullArticle == [null |-> TRUE, title |-> Missing, url |-> Missing, publishedAt |-> Missing]
Art(t, u, p) == [null |-> FALSE, title |-> t, url |-> u, publishedAt |-> p]
A1 == Art(Rep(65, 12) \o <<49>>, <<104>>, <<50>>)
A2 == Art(Rep(65, 12) \o <<50>>, <<105>>, <<51>>)
\* An article with a short title and nothing else, and one without any field.
ShortArticle == Art(<<66>>, Missing, Missing)
EmptyArticle == Art(Missing, Missing, Missing)

\* Mutant: a missing field is concatenated as the text "undefined".
OrEmpty_Undefined(s) ==
  IF s = Missing THEN << 117, 110, 100, 101, 102, 105, 110, 101, 100 >>
  ELSE IF s = <<>> THEN <<>> ELSE s

\* (x || "")
OrEmpty(s) == IF s = Missing \/ s = <<>> THEN <<>> ELSE s

\* Buffer.from(s).toString("base64"): 3 bytes give 4 sextets, a tail of 1 or
\* 2 bytes gives 2 or 3 sextets and padding (64 stands for "=").
RECURSIVE Base64(_)
Base64(bytes) ==
  IF Len(bytes) = 0 THEN <<>>
  ELSE IF Len(bytes) = 1 THEN
    << bytes[1] \div 4, (bytes[1] % 4) * 16, 64, 64 >>
  ELSE IF Len(bytes) = 2 THEN
    << bytes[1] \div 4, (bytes[1] % 4) * 16 + bytes[2] \div 16,
       (bytes[2] % 16) * 4, 64 >>
  ELSE
    << bytes[1] \div 4, (bytes[1] % 4) * 16 + bytes[2] \div 16,
       (bytes[2] % 16) * 4 + bytes[3] \div 64, bytes[3] % 64 >>
    \o Base64(SubSeq(bytes, 4, Len(bytes)))

\* s.substring(0, n)
Substring0(s, n) == SubSeq(s, 1, IF Len(s) < n THEN Len(s) ELSE n)

generateArticleId(article) ==
  Substring0(Base64(OrEmpty(article.title) \o OrEmpty(article.url)
                    \o OrEmpty(article.publishedAt)), IdLength)

\* ------------------------------------------------------- retention store
\* serviceState.retainedArticles is a JS Map: a sequence of entries without
\* repeated ids, in insertion order.
StoreIds(store) == {store[i].id : i \in 1..Len(store)}

\* Mutant: the test for an identity already retained never finds one.
has_Never(store, id) == FALSE

\* serviceState.retainedArticles.has(articleId)
has(store, id) == id \in StoreIds(store)

\* articles.forEach of addArticles, up to the first article it throws on.
\* Yields <<store, addedCount, threw>>.
RECURSIVE addLoop(_, _, _, _)
addLoop(store, articles, t, added) ==
  IF articles = <<>> THEN <<store, added, FALSE>>
  ELSE IF Head(articles).null THEN <<store, added, TRUE>>
  ELSE LET id == generateArticleId(Head(articles)) IN
       IF has(store, id)
       THEN addLoop(store, Tail(articles), t, added)
       ELSE addLoop(Append(store, [id |-> id, article |-> Head(articles), timestamp |-> t]),
                    Tail(articles), t, added + 1)

\* Mutant: an article seen again has its ingestion time refreshed.
addArticles_Restamp(store, articles, t) ==
  LET res == addLoop(store, articles, t, 0)
      seen == {generateArticleId(articles[i]) : i \in 1..Len(articles)}
  IN << [i \in 1..Len(res[1]) |->
           IF res[1][i].id \in seen THEN [res[1][i] EXCEPT !.timestamp = t]
           ELSE res[1][i]],
        res[2], res[3] >>

\* Mutant: the batch replaces what the store held.
addArticles_Replaces(store, articles, t) == addLoop(<<>>, articles, t, 0)

addArticles(store, articles, t) == addLoop(store, articles, t, 0)

\* Mutant: the read misses the oldest entry.
getRetainedArticles_Partial(store) == [i \in 1..Len(store) - 1 |-> store[i + 1].article]

getRetainedArticles(store) == [i \in 1..Len(store) |-> store[i].article]

\* Mutant: an entry expires as soon as its age reaches the retention window.
Expired_AtWindow(entry, t) == t - entry.timestamp >= ARTICLE_RETENTION_HOURS

\* now - data.timestamp > retentionMs
Expired(entry, t) == t - entry.timestamp > ARTICLE_RETENTION_HOURS

RECURSIVE KeepFresh(_, _)
KeepFresh(store, t) ==
  IF store = <<>> THEN <<>>
  ELSE IF Expired(Head(store), t) THEN KeepFresh(Tail(store), t)
  ELSE <<Head(store)>> \o KeepFresh(Tail(store), t)

\* Yields <<store, removedCount>>.
cleanupOldArticles(store, t) ==
  LET kept == KeepFresh(store, t) IN <<kept, Len(store) - Len(kept)>>

\* ------------------------------------------------- global event search
\* What the search provider sends back, by what searchGlobalNews makes of it:
\*   "transport"  the request rejects or times out, or the response has no
\*                choices[0].message.content (TypeError in the outer try);
\*   "unparsable" JSON.parse throws, or yields null or a primitive (the
\*                property access or assignment throws in the inner try);
\*   "parsed"     an object, whose global_news_events is absent or falsy
\*                ("absent"), an array of len elements ("array"; ok says that
\*                every element can be formatted for the prompt), a truthy
\*                value without a length ("object") or a non-array with a
\*                length ("string").
\* total is the total_events the parsed object carries (Undefined: none).
Events(shape, len, ok) == [shape |-> shape, len |-> len, ok |-> ok]
SearchOutcome(kind, ev, total) == [kind |-> kind, events |-> ev, total |-> total]
SearchUpstream ==
  { SearchOutcome("transport", Events("absent", 0, TRUE), Undefined),
    SearchOutcome("unparsable", Events("absent", 0, TRUE), Undefined),
    SearchOutcome("parsed", Events("absent", 0, TRUE), Undefined),
    SearchOutcome("parsed", Events("array", 2, TRUE), 0),
    SearchOutcome("parsed", Events("object", Undefined, TRUE), 1),
    SearchOutcome("parsed", Events("string", 3, TRUE), Undefined) }

\* if (!searchData.global_news_events) searchData.global_news_events = []
DefaultEvents(ev) == IF ev.shape = "absent" THEN Events("array", 0, TRUE) ELSE ev

\* Mutant: the total_events of the upstream response is kept.
searchGlobalNews_TrustsUpstream(out) ==
  IF out.kind = "parsed"
  THEN [ global_news_events |-> DefaultEvents(out.events),
         total_events |-> out.total,
         error |-> NoError ]
  ELSE [ global_news_events |-> Events("array", 0, TRUE),
         total_events |-> 0,
         error |-> IF out.kind = "unparsable" THEN "JSON parsing failed"
                   ELSE "search transport error" ]

\* Mutant: the failure placeholders carry no error field.
searchGlobalNews_NoErrorField(out) ==
  IF out.kind = "parsed"
  THEN [ global_news_events |-> DefaultEvents(out.events),
         total_events |-> DefaultEvents(out.events).len,
         error |-> NoError ]
  ELSE [ global_news_events |-> Events("array", 0, TRUE),
         total_events |-> 0,
         error |-> NoError ]

\* The value searchGlobalNews returns.
searchGlobalNews(out) ==
  IF out.kind = "parsed"
  THEN [ global_news_events |-> DefaultEvents(out.events),
         total_events |-> DefaultEvents(out.events).len,
         error |-> NoError ]
  ELSE [ global_news_events |-> Events("array", 0, TRUE),
         total_events |-> 0,
         error |-> IF out.kind = "unparsable" THEN "JSON parsing failed"
                   ELSE "search transport error" ]

\* x || 0 for a number or undefined
OrZero(x) == IF x = Undefined THEN 0 ELSE x

\* ------------------------------------------------------ impact analysis
Absent == "<absent>"
Assessment(a, s, m, ev, err) ==
  [analysis |-> a, summary |-> s, market_influence |-> m, events |-> ev, error |-> err]
NullAnalysis == Assessment("<null>", "<null>", "<null>", <<>>, NoError)
NoAnalysis == Assessment("<unset>", "<unset>", "<unset>", <<>>, NoError)

\* Mutant: the catch block drops the error message.
Degraded_NoError(err) == Assessment(TechnicalError, TechnicalError, "minimal", <<>>, NoError)

\* Mutant: the catch block reports a major influence.
Degraded_Major(err) == Assessment(TechnicalError, TechnicalError, "major", <<>>, err)

\* The catch block of analyzeCombinedNews.
Degraded(err) == Assessment(TechnicalError, TechnicalError, "minimal", <<>>, err)

\* x || d for a string
OrText(x, d) == IF x = NoText \/ x = Absent THEN d ELSE x

\* An element of the events array of a model response: null, or an object
\* whose title/summary/analysis are Absent, falsy (NoText) or a text.
EventNote(t, s, a) == [null |-> FALSE, title |-> t, summary |-> s, analysis |-> a]
NullNote == [null |-> TRUE, title |-> Absent, summary |-> Absent, analysis |-> Absent]

\* `Event ${index + 1}`
EventTitle(i) ==
  CASE i = 1 -> "Event 1" [] i = 2 -> "Event 2" [] i = 3 -> "Event 3" [] OTHER -> "Event n"

\* What JSON.parse(extractJsonFromResponse(rawContent)) yields:
\*   "unparsable" it throws; "nonobject" null or a primitive; "object" an
\*   object with the four fields Absent, falsy (NoText) or a value, and
\*   events [shape: "absent" | "nonarray" | "array", elems].
Parsed(kind, a, s, m, shape, elems) ==
  [kind |-> kind, analysis |-> a, summary |-> s, market_influence |-> m,
   events |-> [shape |-> shape, elems |-> elems]]

\* Mutant: no required field is looked for.
FirstMissing_None(p) == "<none>"

\* Mutant: the required fields are looked for in reverse order.
FirstMissing_Reversed(p) ==
  IF p.events.shape = "absent" THEN "events"
  ELSE IF p.market_influence = Absent THEN "market_influence"
  ELSE IF p.summary = Absent THEN "summary"
  ELSE IF p.analysis = Absent THEN "analysis"
  ELSE "<none>"

\* The first required field that `field in analysis` does not find.
FirstMissing(p) ==
  IF p.analysis = Absent THEN "analysis"
  ELSE IF p.summary = Absent THEN "summary"
  ELSE IF p.market_influence = Absent THEN "market_influence"
  ELSE IF p.events.shape = "absent" THEN "events"
  ELSE "<none>"

MissingFieldError(f) ==
  CASE f = "analysis" -> "Failed to parse analysis response: Missing required field: analysis"
    [] f = "summary" -> "Failed to parse analysis response: Missing required field: summary"
    [] f = "market_influence" -> "Failed to parse analysis response: Missing required field: market_influence"
    [] OTHER -> "Failed to parse analysis response: Missing required field: events"

\* analysis.events.map(...) after the Array.isArray coercion
SanitizeEvents(ev) ==
  IF ev.shape # "array" THEN <<>>
  ELSE [i \in 1..Len(ev.elems) |->
          [title |-> IF ev.elems[i].title \in {NoText, Absent}
                     THEN EventTitle(i) ELSE ev.elems[i].title,
           summary |-> OrText(ev.elems[i].summary, NoSummaryText),
           analysis |-> OrText(ev.elems[i].analysis, NoAnalysisText)]]

HasNullNote(ev) ==
  ev.shape = "array" /\ \E i \in 1..Len(ev.elems) : ev.elems[i].null

\* parseAnalysisResponse: [ok, value, error]; ok = FALSE is the rethrown
\* Error("Failed to parse analysis response: ...").
parseAnalysisResponse(p) ==
  IF p.kind = "unparsable" THEN
    [ok |-> FALSE, value |-> NoAnalysis,
     error |-> "Failed to parse analysis response: Unexpected token"]
  ELSE IF p.kind = "nonobject" THEN
    [ok |-> FALSE, value |-> NoAnalysis,
     error |-> "Failed to parse analysis response: Cannot use 'in' operator"]
  ELSE IF FirstMissing(p) # "<none>" THEN
    [ok |-> FALSE, value |-> NoAnalysis, error |-> MissingFieldError(FirstMissing(p))]
  ELSE IF HasNullNote(p.events) THEN
    [ok |-> FALSE, value |-> NoAnalysis,
     error |-> "Failed to parse analysis response: Cannot read properties of null"]
  ELSE
    [ok |-> TRUE,
     value |-> Assessment(OrText(p.analysis, NoAnalysisText),
                          OrText(p.summary, NoSummaryText),
                          OrText(p.market_influence, "minimal"),
                          SanitizeEvents(p.events), NoError),
     error |-> NoError]

\* What the model provider sends back: the request rejects or times out
\* ("transport"), the response has no choices ("nochoices"), or it carries a
\* text ("text") that parses as given.
LLMOutcome(kind, parsed) == [kind |-> kind, parsed |-> parsed]
NoParsed == Parsed("unparsable", Absent, Absent, Absent, "absent", <<>>)
GoodNotes == << EventNote("t1", "s1", "a1"), EventNote(Absent, NoText, "a2") >>
LLMUpstream ==
  { LLMOutcome("transport", NoParsed),
    LLMOutcome("nochoices", NoParsed),
    LLMOutcome("text", NoParsed),
    LLMOutcome("text", Parsed("object", "an", Absent, "major", "array", <<>>)),
    LLMOutcome("text", Parsed("object", "an", "su", "significant", "array", GoodNotes)),
    LLMOutcome("text", Parsed("object", "an", "su", "moderate", "array", <<NullNote>>)) }

NoResponse == LLMOutcome("none", NoParsed)

\* Mutant: analyzeCombinedNews returns null whenever there is no article.
analyzeEntry_NullOnNoArticles(rssArticles, perplexityResults) ==
  IF Len(rssArticles) = 0 THEN "null"
  ELSE IF perplexityResults.global_news_events.len > 0
          /\ (perplexityResults.global_news_events.shape # "array"
              \/ ~perplexityResults.global_news_events.ok) THEN "threw"
  ELSE "call"

\* Mutant: analyzeCombinedNews without its nothing-to-analyze test.
analyzeEntry_NoNullCheck(rssArticles, perplexityResults) ==
  IF perplexityResults.global_news_events.len > 0
     /\ (perplexityResults.global_news_events.shape # "array"
         \/ ~perplexityResults.global_news_events.ok) THEN "threw"
  ELSE "call"

\* What analyzeCombinedNews does before it awaits the model: "null" (nothing
\* to analyze), "threw" (formatting the prompt throws into its catch block)
\* or "call" (the request is sent).
analyzeEntry(rssArticles, perplexityResults) ==
  IF Len(rssArticles) = 0 /\ OrZero(perplexityResults.total_events) = 0 THEN "null"
  ELSE IF perplexityResults.global_news_events.len > 0
          /\ (perplexityResults.global_news_events.shape # "array"
              \/ ~perplexityResults.global_news_events.ok) THEN "threw"
  ELSE "call"

\* Mutant: the parsed object is returned as it came, without validation.
analyzeResult_Unvalidated(out) ==
  IF out.kind = "transport" THEN <<Degraded("timeout of 60000ms exceeded"), FALSE>>
  ELSE IF out.kind = "nochoices" THEN <<Degraded("No response from LLM"), FALSE>>
  ELSE IF out.parsed.kind = "object"
       THEN <<Assessment(out.parsed.analysis, out.parsed.summary,
                         out.parsed.market_influence, <<>>, NoError), TRUE>>
       ELSE <<Degraded(parseAnalysisResponse(out.parsed).error), FALSE>>

\* What analyzeCombinedNews returns once the model has answered:
\* <<assessment, parsedOk>>.
analyzeResult(out) ==
  IF out.kind = "transport" THEN <<Degraded("timeout of 60000ms exceeded"), FALSE>>
  ELSE IF out.kind = "nochoices" THEN <<Degraded("No response from LLM"), FALSE>>
  ELSE IF parseAnalysisResponse(out.parsed).ok
       THEN <<parseAnalysisResponse(out.parsed).value, TRUE>>
       ELSE <<Degraded(parseAnalysisResponse(out.parsed).error), FALSE>>

\* --------------------------------------------------------------- archive
\* analysisData of storeCombinedAnalysis
analysisData(analysis) ==
  [analysis |-> OrText(analysis.analysis, NoAnalysisText),
   summary |-> OrText(analysis.summary, NoSummaryText),
   events |-> analysis.events,
   marketInfluence |-> OrText(analysis.market_influence, "minimal")]

\* Mutant: storeCombinedAnalysis lets the failure of the write escape.
storeCombinedAnalysis_Rethrows(docs, analysis, ok) ==
  [success |-> ok, analysisId |-> IF ok THEN Len(docs) + 1 ELSE Undefined,
   docs |-> IF ok THEN Append(docs, analysisData(analysis)) ELSE docs,
   threw |-> ~ok]

\* What storeCombinedAnalysis returns when collection.add resolves (ok) or
\* rejects: the storage result, with the collection as it then is (docs);
\* the id of a new document is its position in the collection.  threw says
\* that an exception leaves the method.
storeCombinedAnalysis(docs, analysis, ok) ==
  [success |-> ok, analysisId |-> IF ok THEN Len(docs) + 1 ELSE Undefined,
   docs |-> IF ok THEN Append(docs, analysisData(analysis)) ELSE docs,
   threw |-> FALSE]

\* ------------------------------------------------------------ statistics
InitStats ==
  [totalArticlesProcessed |-> 0, totalPerplexitySearches |-> 0,
   criticalAlertsGenerated |-> 0, highImpactEventsDetected |-> 0,
   averageImpactScore |-> 0, lastRSSCheck |-> Undefined,
   lastPerplexitySearch |-> Undefined, recentAnalyses |-> <<>>]

\* Mutant: the record counts no events.
CycleRecord_NoEvents(analysis, t) ==
  [timestamp |-> t, marketInfluence |-> analysis.market_influence,
   eventsCount |-> 0, summary |-> analysis.summary]

CycleRecord(analysis, t) ==
  [timestamp |-> t, marketInfluence |-> analysis.market_influence,
   eventsCount |-> Len(analysis.events), summary |-> analysis.summary]

\* Mutant: the slice keeps the end of the history.
Truncate_KeepsOldest(h) ==
  IF Len(h) > MaxHistory THEN SubSeq(h, Len(h) - MaxHistory + 1, Len(h)) ELSE h

Truncate(h) == IF Len(h) > MaxHistory THEN SubSeq(h, 1, MaxHistory) ELSE h

\* Mutant: every recorded cycle counts as a critical alert.
IsCritical_Always(analysis) == TRUE

IsCritical(analysis) == analysis.market_influence = "major"
\* Mutant: only "significant" counts as high impact.
IsHighImpact_SignificantOnly(analysis) == analysis.market_influence = "significant"

IsHighImpact(analysis) == analysis.market_influence \in {"significant", "major"}

updateServiceStats(st, analysis, rssArticleCount, t) ==
  [st EXCEPT
     !.totalArticlesProcessed = @ + rssArticleCount,
     !.criticalAlertsGenerated = IF IsCritical(analysis) THEN @ + 1 ELSE @,
     !.highImpactEventsDetected = IF IsHighImpact(analysis) THEN @ + 1 ELSE @,
     !.recentAnalyses = Truncate(<<CycleRecord(analysis, t)>> \o @)]

\* ------------------------------------------------------------- feed
\* What the feed service answers to fetchRecentArticles: the request rejects
\* or times out ("transport"), success is false ("failure"), or success is
\* true and articles is the given array ("ok").
FeedOutcome(kind, articles) == [kind |-> kind, articles |-> articles]
Batches == { <<>>, <<A1, A2>>, <<A1, NullArticle>> }
FeedUpstream ==
  { FeedOutcome("transport", <<>>), FeedOutcome("failure", <<>>) }
  \cup { FeedOutcome("ok", b) : b \in Batches }

fetchRecentArticles(out) == IF out.kind = "ok" THEN out.articles ELSE <<>>

\* ------------------------------------------------------------------ state
VARIABLES
  isRunning,         \* this.isRunning and serviceState.isRunning
  started,           \* start() has run: cron jobs registered, server listening
  isAnalyzing,       \* serviceState.isAnalyzing
  lastAnalysis,      \* serviceState.lastAnalysis
  totalAnalyses,     \* serviceState.totalAnalyses
  stats,             \* serviceState.stats
  retainedArticles,  \* serviceState.retainedArticles
  lastCleanup,       \* serviceState.lastCleanup
  cleanupCount,      \* articleRetention.cleanupCount
  analysisCount,     \* impactAnalyzer.analysisCount
  searchCount,       \* perplexitySearcher.searchCount
  archive,           \* the documents of the news_analysis collection
  now,               \* Date.now()
  task,              \* the calls of performScheduledAnalysis in progress
  begun,             \* number of cycles begun so far
  out                \* what the step just taken delivered to its caller

vars == << isRunning, started, isAnalyzing, lastAnalysis, totalAnalyses, stats,
           retainedArticles, lastCleanup, cleanupCount, analysisCount,
           searchCount, archive, now, task, begun, out >>

NoLastAnalysis ==
  [timestamp |-> Undefined, analysisId |-> Undefined, marketInfluence |-> "<null>",
   eventsCount |-> 0, summary |-> "<null>", duration |-> 0]

NoSearch == [global_news_events |-> Events("absent", 0, TRUE),
             total_events |-> Undefined, error |-> NoError]

\* A call of performScheduledAnalysis: who made it (kind: "cron", "manual"
\* for performManualAnalysis, "http" for POST /api/analyze), the await it is
\* suspended at (pc) and its locals.  An idle slot holds no call.
Idle ==
  [kind |-> "none", pc |-> "idle", startTime |-> 0, retained |-> <<>>,
   search |-> NoSearch, response |-> NoResponse, analysis |-> NoAnalysis]

\* What a step delivers: nothing ("none"), a dropped cron trigger
\* ("skipped"), a tick of the cleanup cron ("cleanup"), a refused manual trigger ("rejected", with the error and,
\* for the route, the HTTP status) or the end of a cycle ("ended", with how
\* it ended and the locals it ended with).  A resumed cycle that goes on
\* delivers the kind of upstream answer it resumed on ("fetched", upstream).
NoOut ==
  [event |-> "none", kind |-> "none", error |-> NoError, status |-> 0,
   ending |-> "-", retained |-> <<>>, search |-> NoSearch, analysis |-> NoAnalysis,
   upstream |-> "-", count |-> 0, response |-> NoResponse, calls |-> 0,
   content |-> <<>>, text |-> <<>>]

Running(t) == task[t].pc # "idle"
RunningSet == {t \in Tasks : Running(t)}
FreeTask == CHOOSE t \in Tasks : ~Running(t) /\ \A u \in Tasks : ~Running(u) => t <= u

Init ==
  /\ isRunning = FALSE
  /\ started = FALSE
  /\ isAnalyzing = FALSE
  /\ lastAnalysis = NoLastAnalysis
  /\ totalAnalyses = 0
  /\ stats = InitStats
  /\ retainedArticles = <<>>
  /\ lastCleanup = Undefined
  /\ cleanupCount = 0
  /\ analysisCount = 0
  /\ searchCount = 0
  /\ archive = <<>>
  /\ now = 0
  /\ task = [t \in Tasks |-> Idle]
  /\ begun = 0
  /\ out = NoOut

\* ------------------------------------------------------- service lifecycle
Start ==
  /\ ~started
  /\ started' = TRUE
  /\ isRunning' = TRUE
  /\ out' = NoOut
  /\ UNCHANGED << isAnalyzing, lastAnalysis, totalAnalyses, stats, retainedArticles,
                  lastCleanup, cleanupCount, analysisCount, searchCount, archive,
                  now, task, begun >>

Stop ==
  /\ isRunning
  /\ isRunning' = FALSE
  /\ out' = NoOut
  /\ UNCHANGED << started, isAnalyzing, lastAnalysis, totalAnalyses, stats,
                  retainedArticles, lastCleanup, cleanupCount, analysisCount,
                  searchCount, archive, now, task, begun >>

Tick(d) ==
  /\ now + d <= MaxTime
  /\ now' = now + d
  /\ out' = NoOut
  /\ UNCHANGED << isRunning, started, isAnalyzing, lastAnalysis, totalAnalyses, stats,
                  retainedArticles, lastCleanup, cleanupCount, analysisCount,
                  searchCount, archive, task, begun >>

\* ---------------------------------------------------------------- triggers
\* Mutants of the guards: the cron callback tests only isRunning; the manual
\* entry tests the wrong flag, or nothing; the route does not test.
CronSkips_NoFlagTest == ~isRunning
ManualRejects_WrongFlag == ~isRunning
ManualRejects_Never == FALSE
HttpRejects_Never == FALSE

\* Mutant: the cron callback does not test isRunning.
CronSkips_IgnoresStop == isAnalyzing

\* The guards of the three entry points.
CronSkips == ~isRunning \/ isAnalyzing
ManualRejects == isAnalyzing
HttpRejects == isAnalyzing

\* A trigger can be served while a slot is free and the bound on cycles has
\* not been reached.
CanTrigger == totalAnalyses < MaxAnalyses /\ \E t \in Tasks : ~Running(t)

\* Mutant: the entry does not set the flag.
BeginCycle_NoFlag(kind) ==
  /\ isAnalyzing' = isAnalyzing
  /\ task' = [task EXCEPT ![FreeTask] = [Idle EXCEPT !.kind = kind, !.pc = "fetch",
                                                     !.startTime = now]]
  /\ begun' = begun + 1
  /\ out' = NoOut

\* The entry of performScheduledAnalysis, up to its first await.
BeginCycle(kind) ==
  /\ isAnalyzing' = TRUE
  /\ task' = [task EXCEPT ![FreeTask] = [Idle EXCEPT !.kind = kind, !.pc = "fetch",
                                                     !.startTime = now]]
  /\ begun' = begun + 1
  /\ out' = NoOut

Refuse(kind, event, err, status) ==
  /\ out' = [NoOut EXCEPT !.event = event, !.kind = kind, !.error = err,
                          !.status = status]
  /\ UNCHANGED << isAnalyzing, task, begun >>

TriggerFrame ==
  UNCHANGED << isRunning, started, lastAnalysis, totalAnalyses, stats,
               retainedArticles, lastCleanup, cleanupCount, analysisCount,
               searchCount, archive, now >>

\* The cron callback of startScheduledAnalysis.
CronAnalysis ==
  /\ started
  /\ CanTrigger
  /\ IF CronSkips THEN Refuse("cron", "skipped", NoError, 0) ELSE BeginCycle("cron")
  /\ TriggerFrame

\* A direct call of performManualAnalysis.
ManualAnalysis ==
  /\ CanTrigger
  /\ IF ManualRejects THEN Refuse("manual", "rejected", InProgressError, 0)
     ELSE BeginCycle("manual")
  /\ TriggerFrame

\* POST /api/analyze, up to the first await of the cycle it starts.
HttpAnalyze ==
  /\ started
  /\ CanTrigger
  /\ IF HttpRejects THEN Refuse("http", "rejected", InProgressError, 429)
     ELSE IF ManualRejects THEN Refuse("http", "rejected", InProgressError, 500)
     ELSE BeginCycle("http")
  /\ TriggerFrame

\* ---------------------------------------------------------------- the cycle
\* Mutant: the no-content test looks at the search result only.
NoContent_IgnoresStore(retained, res) ==
  res.global_news_events.shape = "absent" \/ res.global_news_events.len = 0

\* The orchestrator's no-content test (step 4 of performScheduledAnalysis).
NoContent(retained, res) ==
  /\ Len(retained) = 0
  /\ res.global_news_events.shape = "absent" \/ res.global_news_events.len = 0

\* Mutant: a degraded assessment is treated as a failed analysis too.
AnalysisFailed_Degraded(analysis) == analysis = NullAnalysis \/ analysis.error # NoError

\* if (!analysis) return
AnalysisFailed(analysis) == analysis = NullAnalysis

\* Mutants of the finally block: the flag is not reset; the cycle is not counted.
FinallyAnalyzing_Stuck == TRUE
FinallyTotal_NoCount(n) == n

\* The finally block.
FinallyAnalyzing == FALSE
FinallyTotal(n) == n + 1

\* The cycle of t returns (through return, the end of the try block or the
\* catch block), the finally block runs and the trigger's caller resumes.
EndCycle(t, ending, retained, search, analysis) ==
  /\ isAnalyzing' = FinallyAnalyzing
  /\ totalAnalyses' = FinallyTotal(totalAnalyses)
  /\ task' = [task EXCEPT ![t] = Idle]
  /\ out' = [event |-> "ended", kind |-> task[t].kind, error |-> NoError,
             status |-> IF task[t].kind = "http" THEN 200 ELSE 0,
             ending |-> ending, retained |-> retained, search |-> search,
             analysis |-> analysis, upstream |-> "-", count |-> 0,
             response |-> NoResponse]

\* Steps 1 and 2: the feed answers, the batch is inserted, the snapshot is
\* taken and the search request is sent.
FetchReturn(t, res) ==
  /\ task[t].pc = "fetch"
  /\ LET newArticles == fetchRecentArticles(res)
         added == IF Len(newArticles) > 0
                  THEN addArticles(retainedArticles, newArticles, now)
                  ELSE <<retainedArticles, 0, FALSE>>
     IN /\ retainedArticles' = added[1]
        /\ IF added[3]
           THEN EndCycle(t, "exception", <<>>, NoSearch, NoAnalysis)
           ELSE /\ task' = [task EXCEPT ![t].pc = "search",
                                        ![t].retained = getRetainedArticles(added[1])]
                /\ out' = [NoOut EXCEPT !.event = "fetched", !.upstream = res.kind]
                /\ UNCHANGED << isAnalyzing, totalAnalyses >>
  /\ UNCHANGED << isRunning, started, lastAnalysis, stats, lastCleanup, cleanupCount,
                  analysisCount, searchCount, archive, now, begun >>

\* Steps 3 to 5: the search answers, the no-content test is made and
\* analyzeCombinedNews runs up to its request to the model.
SearchReturn(t, res) ==
  /\ task[t].pc = "search"
  /\ LET found == searchGlobalNews(res)
         entry == analyzeEntry(task[t].retained, found)
         analysis == IF entry = "null" THEN NullAnalysis
                     ELSE IF entry = "threw" THEN Degraded("map is not a function")
                     ELSE NoAnalysis
     IN /\ searchCount' = IF res.kind = "parsed" THEN searchCount + 1 ELSE searchCount
        /\ stats' = IF res.kind = "parsed"
                    THEN [stats EXCEPT !.totalPerplexitySearches = @ + 1,
                                       !.lastPerplexitySearch = now]
                    ELSE stats
        /\ IF NoContent(task[t].retained, found)
           THEN EndCycle(t, "nocontent", task[t].retained, found, NoAnalysis)
           ELSE IF entry # "call" /\ AnalysisFailed(analysis)
           THEN EndCycle(t, "nullanalysis", task[t].retained, found, analysis)
           ELSE /\ task' = [task EXCEPT
                              ![t].pc = IF entry = "call" THEN "analyze" ELSE "store",
                              ![t].search = found,
                              ![t].analysis = analysis]
                /\ out' = NoOut
                /\ UNCHANGED << isAnalyzing, totalAnalyses >>
  /\ UNCHANGED << isRunning, started, lastAnalysis, retainedArticles, lastCleanup,
                  cleanupCount, analysisCount, archive, now, begun >>

\* The model answers: analyzeCombinedNews returns and storeCombinedAnalysis
\* sends its write to the archive.
AnalyzeReturn(t, res) ==
  /\ task[t].pc = "analyze"
  /\ analysisCount' = IF analyzeResult(res)[2] THEN analysisCount + 1 ELSE analysisCount
  /\ IF AnalysisFailed(analyzeResult(res)[1])
     THEN EndCycle(t, "nullanalysis", task[t].retained, task[t].search,
                   analyzeResult(res)[1])
     ELSE /\ task' = [task EXCEPT ![t].pc = "store", ![t].response = res,
                                  ![t].analysis = analyzeResult(res)[1]]
          /\ out' = NoOut
          /\ UNCHANGED << isAnalyzing, totalAnalyses >>
  /\ UNCHANGED << isRunning, started, lastAnalysis, stats, retainedArticles,
                  lastCleanup, cleanupCount, searchCount, archive, now, begun >>

\* Steps 6 to 8: the archive write succeeds (ok) or fails, the statistics
\* and lastAnalysis are updated and the cycle ends.
StoreReturn(t, ok) ==
  /\ task[t].pc = "store"
  /\ LET storageResult == storeCombinedAnalysis(archive, task[t].analysis, ok)
     IN /\ archive' = storageResult.docs
        /\ IF storageResult.threw
           THEN /\ EndCycle(t, "exception", task[t].retained, task[t].search,
                            task[t].analysis)
                /\ UNCHANGED << stats, lastAnalysis >>
           ELSE /\ stats' = updateServiceStats(stats, task[t].analysis,
                                               Len(task[t].retained), now)
                /\ lastAnalysis' =
                     [timestamp |-> now,
                      analysisId |-> storageResult.analysisId,
                      marketInfluence |-> task[t].analysis.market_influence,
                      eventsCount |-> Len(task[t].analysis.events),
                      summary |-> task[t].analysis.summary,
                      duration |-> now - task[t].startTime]
                /\ EndCycle(t, "normal", task[t].retained, task[t].search,
                            task[t].analysis)
  /\ UNCHANGED << isRunning, started, retainedArticles, lastCleanup, cleanupCount,
                  analysisCount, searchCount, now, begun >>

\* ------------------------------------------------------------------ cleanup
\* Mutant: no cleanup while a cycle is in progress.
DoCleanup_Gated ==
  IF isAnalyzing THEN UNCHANGED << retainedArticles, cleanupCount, lastCleanup >>
  ELSE /\ retainedArticles' = cleanupOldArticles(retainedArticles, now)[1]
       /\ cleanupCount' = cleanupCount + 1
       /\ lastCleanup' = now

\* articleRetention.cleanupOldArticles()
DoCleanup ==
  /\ retainedArticles' = cleanupOldArticles(retainedArticles, now)[1]
  /\ cleanupCount' = cleanupCount + 1
  /\ lastCleanup' = now

\* The cron callback of startArticleCleanup.
CronCleanup ==
  /\ started
  /\ cleanupCount < MaxCleanups
  /\ IF isRunning THEN DoCleanup
     ELSE UNCHANGED << retainedArticles, cleanupCount, lastCleanup >>
  /\ out' = [NoOut EXCEPT !.event = "cleanup", !.kind = "cron"]
  /\ UNCHANGED << isRunning, started, isAnalyzing, lastAnalysis, totalAnalyses, stats,
                  analysisCount, searchCount, archive, now, task, begun >>

\* POST /api/articles/cleanup
HttpCleanup ==
  /\ started
  /\ cleanupCount < MaxCleanups
  /\ DoCleanup
  /\ out' = [NoOut EXCEPT !.event = "cleaned",
                          !.count = cleanupOldArticles(retainedArticles, now)[2]]
  /\ UNCHANGED << isRunning, started, isAnalyzing, lastAnalysis, totalAnalyses, stats,
                  analysisCount, searchCount, archive, now, task, begun >>

\* ------------------------------------------------------------ specification
Next ==
  \/ Start
  \/ Stop
  \/ CronAnalysis
  \/ ManualAnalysis
  \/ HttpAnalyze
  \/ \E t \in Tasks : \E res \in FeedUpstream : FetchReturn(t, res)
  \/ \E t \in Tasks : \E res \in SearchUpstream : SearchReturn(t, res)
  \/ \E t \in Tasks : \E res \in LLMUpstream : AnalyzeReturn(t, res)
  \/ \E t \in Tasks : \E ok \in BOOLEAN : StoreReturn(t, ok)
  \/ CronCleanup
  \/ HttpCleanup

Spec == Init /\ [][Next]_vars

\* Every upstream call returns or fails in the end (each has a timeout), so
\* a cycle suspended at an await is resumed.
CycleStep(t) ==
  \/ \E res \in FeedUpstream : FetchReturn(t, res)
  \/ \E res \in SearchUpstream : SearchReturn(t, res)
  \/ \E res \in LLMUpstream : AnalyzeReturn(t, res)
  \/ \E ok \in BOOLEAN : StoreReturn(t, ok)

FairSpec == Spec /\ \A t \in Tasks : WF_vars(CycleStep(t))

\* ------------------------------------------------- the store on its own
\* The operations of ArticleRetentionManager called one by one, with the
\* clock running: addArticles on a batch, the read of the retained articles
\* (GET /api/articles/retained) and the two cleanups.
StoreBatches ==
  { <<A1>>, <<A1, A1>>, <<A2>>, <<A1, A2>>, <<ShortArticle, EmptyArticle>> }

\* articleRetention.addArticles(batch); delivers the batch and the count.
InsertBatch(batch) ==
  /\ retainedArticles' = addArticles(retainedArticles, batch, now)[1]
  /\ out' = [NoOut EXCEPT !.event = "added", !.retained = batch,
                          !.count = addArticles(retainedArticles, batch, now)[2]]
  /\ UNCHANGED << isRunning, started, isAnalyzing, lastAnalysis, totalAnalyses, stats,
                  lastCleanup, cleanupCount, analysisCount, searchCount, archive,
                  now, task, begun >>

\* Mutant: the read stamps the store as cleaned.
ReadRetained_Touches ==
  /\ started
  /\ out' = [NoOut EXCEPT !.event = "snapshot",
                          !.retained = getRetainedArticles(retainedArticles),
                          !.count = Len(getRetainedArticles(retainedArticles))]
  /\ lastCleanup' = now
  /\ UNCHANGED << isRunning, started, isAnalyzing, lastAnalysis, totalAnalyses, stats,
                  retainedArticles, cleanupCount, analysisCount,
                  searchCount, archive, now, task, begun >>

\* GET /api/articles/retained
ReadRetained ==
  /\ started
  /\ out' = [NoOut EXCEPT !.event = "snapshot",
                          !.retained = getRetainedArticles(retainedArticles),
                          !.count = Len(getRetainedArticles(retainedArticles))]
  /\ UNCHANGED << isRunning, started, isAnalyzing, lastAnalysis, totalAnalyses, stats,
                  retainedArticles, lastCleanup, cleanupCount, analysisCount,
                  searchCount, archive, now, task, begun >>

StoreNext ==
  \/ Start
  \/ \E batch \in StoreBatches : InsertBatch(batch)
  \/ ReadRetained
  \/ CronCleanup
  \/ HttpCleanup
  \/ \E d \in TickSteps : Tick(d)

StoreSpec == Init /\ [][StoreNext]_vars

\* ------------------------------------------------ the clients on their own
\* The search client behind POST /api/search/global and direct calls of
\* analyzeCombinedNews, for more upstream answers than the cycle is run with.
ClientSearch ==
  SearchUpstream
  \cup { SearchOutcome("parsed", Events("array", 0, TRUE), 5),
         SearchOutcome("parsed", Events("array", 1, FALSE), 1) }

ClientLLM ==
  LLMUpstream
  \cup { LLMOutcome("text", Parsed("nonobject", Absent, Absent, Absent, "absent", <<>>)),
         LLMOutcome("text", Parsed("object", Absent, "su", "major", "array", GoodNotes)),
         LLMOutcome("text", Parsed("object", "an", "su", Absent, "array", GoodNotes)),
         LLMOutcome("text", Parsed("object", "an", "su", "major", "absent", <<>>)),
         LLMOutcome("text", Parsed("object", Absent, Absent, Absent, "absent", <<>>)),
         LLMOutcome("text", Parsed("object", NoText, NoText, NoText, "nonarray", <<>>)),
         LLMOutcome("text", Parsed("object", "an", "su", "catastrophic", "array", <<>>)) }

ClientArticles == { <<>>, <<A1>> }

\* POST /api/search/global, when the search provider has answered.
HttpSearch(res) ==
  /\ started
  /\ searchCount < MaxCalls
  /\ searchCount' = IF res.kind = "parsed" THEN searchCount + 1 ELSE searchCount
  /\ stats' = IF res.kind = "parsed"
              THEN [stats EXCEPT !.totalPerplexitySearches = @ + 1,
                                 !.lastPerplexitySearch = now]
              ELSE stats
  /\ out' = [NoOut EXCEPT !.event = "searched", !.kind = "http", !.status = 200,
                          !.search = searchGlobalNews(res),
                          !.upstream = res.kind, !.response = res]
  /\ UNCHANGED << isRunning, started, isAnalyzing, lastAnalysis, totalAnalyses,
                  retainedArticles, lastCleanup, cleanupCount, analysisCount,
                  archive, now, task, begun >>

\* A call of analyzeCombinedNews(rssArticles, perplexityResults), from its
\* entry to its return; res is what the model answers if it is asked.
\* Mutant: analysisCount counts every call that reaches the model.
Analyze_CountsAll(rssArticles, perplexityResults, res) ==
  /\ analysisCount < MaxCalls
  /\ LET entry == analyzeEntry(rssArticles, perplexityResults)
         analysis == IF entry = "null" THEN NullAnalysis
                     ELSE IF entry = "threw" THEN Degraded("map is not a function")
                     ELSE analyzeResult(res)[1]
     IN /\ analysisCount' = IF entry = "call" THEN analysisCount + 1 ELSE analysisCount
        /\ out' = [NoOut EXCEPT !.event = "analyzed", !.retained = rssArticles,
                                !.search = perplexityResults, !.analysis = analysis,
                                !.upstream = IF entry = "call" THEN res.kind ELSE entry,
                                !.response = IF entry = "call" THEN res ELSE NoResponse]
  /\ UNCHANGED << isRunning, started, isAnalyzing, lastAnalysis, totalAnalyses, stats,
                  retainedArticles, lastCleanup, cleanupCount, searchCount, archive,
                  now, task, begun >>

Analyze(rssArticles, perplexityResults, res) ==
  /\ analysisCount < MaxCalls
  /\ LET entry == analyzeEntry(rssArticles, perplexityResults)
         analysis == IF entry = "null" THEN NullAnalysis
                     ELSE IF entry = "threw" THEN Degraded("map is not a function")
                     ELSE analyzeResult(res)[1]
     IN /\ analysisCount' = IF entry = "call" /\ analyzeResult(res)[2]
                            THEN analysisCount + 1 ELSE analysisCount
        /\ out' = [NoOut EXCEPT !.event = "analyzed", !.retained = rssArticles,
                                !.search = perplexityResults, !.analysis = analysis,
                                !.upstream = IF entry = "call" THEN res.kind ELSE entry,
                                !.response = IF entry = "call" THEN res ELSE NoResponse]
  /\ UNCHANGED << isRunning, started, isAnalyzing, lastAnalysis, totalAnalyses, stats,
                  retainedArticles, lastCleanup, cleanupCount, searchCount, archive,
                  now, task, begun >>

ClientNext ==
  \/ Start
  \/ \E res \in ClientSearch : HttpSearch(res)
  \/ \E rssArticles \in ClientArticles : \E found \in ClientSearch :
       \E res \in ClientLLM : Analyze(rssArticles, searchGlobalNews(found), res)

ClientSpec == Init /\ [][ClientNext]_vars

\* ------------------------------------------------ the cycle with a clock
\* The analysis cycle, the cleanups and the read of the retained articles
\* with the clock running, for a few upstream answers: a feed that fails or
\* sends a batch (one of them with a null article), a search that fails, a
\* model that answers with a "significant" or a "major" assessment or fails,
\* and an archive that accepts the write.
TimedFeed ==
  { FeedOutcome("transport", <<>>), FeedOutcome("ok", <<A1, NullArticle>>),
    FeedOutcome("ok", <<ShortArticle, A2>>) }
TimedSearch == { SearchOutcome("transport", Events("absent", 0, TRUE), Undefined) }
TimedLLM ==
  { LLMOutcome("text", Parsed("object", "an", "su", "significant", "array", GoodNotes)),
    LLMOutcome("text", Parsed("object", "an", "su", "major", "array", <<>>)),
    LLMOutcome("transport", NoParsed) }
\* The clock advances past the retention window in one step.
TimedSteps == { ARTICLE_RETENTION_HOURS + 1 }

TimedNext ==
  \/ Start
  \/ CronAnalysis
  \/ HttpAnalyze
  \/ \E t \in Tasks : \E res \in TimedFeed : FetchReturn(t, res)
  \/ \E t \in Tasks : \E res \in TimedSearch : SearchReturn(t, res)
  \/ \E t \in Tasks : \E res \in TimedLLM : AnalyzeReturn(t, res)
  \/ \E t \in Tasks : StoreReturn(t, TRUE)
  \/ ReadRetained
  \/ CronCleanup
  \/ HttpCleanup
  \/ \E d \in TimedSteps : Tick(d)

TimedSpec == Init /\ [][TimedNext]_vars

\* ------------------------------------------ the service started and stopped
\* start(), stop() and the two cron callbacks, with the cycles the analysis
\* callback starts, the clock, and the upstream answers of the timed cycle.
\* The callbacks are the only triggers here; an upstream call returns or
\* fails in the end, so a suspended cycle is resumed.
StopStep(t) ==
  \/ \E res \in TimedFeed : FetchReturn(t, res)
  \/ \E res \in TimedSearch : SearchReturn(t, res)
  \/ \E res \in TimedLLM : AnalyzeReturn(t, res)
  \/ StoreReturn(t, TRUE)

StopNext ==
  \/ Start
  \/ Stop
  \/ CronAnalysis
  \/ CronCleanup
  \/ \E t \in Tasks : StopStep(t)
  \/ \E d \in TimedSteps : Tick(d)

StopSpec == Init /\ [][StopNext]_vars /\ \A t \in Tasks : WF_vars(StopStep(t))

\* --------------------------------------------- the statistics on their own
\* updateServiceStats called cycle after cycle, more often than the history
\* is long.  The first calls take an assessment with each market influence
\* (one of them off the scale) and an article count; the later ones take an
\* assessment that tells by its number of events which call it came from.
StatsEvents == SanitizeEvents([shape |-> "array", elems |-> GoodNotes])
StatsAssessments ==
  { Assessment("an", "su", "minimal", <<>>, NoError),
    Assessment("an", "su", "moderate", SubSeq(StatsEvents, 1, 1), NoError),
    Assessment("an", "su", "significant", StatsEvents, NoError),
    Assessment("an", "su", "major", <<>>, NoError),
    Assessment("an", "su", "catastrophic", <<>>, NoError),
    Degraded("No response from LLM") }
StatsCounts == { 0, 3 }
FillerEvents(k) == k % 3
Filler(k) == Assessment("an", "su", "moderate",
                        SubSeq(StatsEvents \o SubSeq(StatsEvents, 1, 1), 1, FillerEvents(k)),
                        NoError)
StatsInputs(k) ==
  IF k <= VariedCalls THEN StatsAssessments \X StatsCounts
  ELSE { <<Filler(k), 1>> }

\* this.updateServiceStats(analysis, retainedArticles.length, ...); delivers
\* its arguments and the number of calls made so far.
RecordStats(analysis, rssArticleCount) ==
  /\ out.calls < MaxRecords
  /\ stats' = updateServiceStats(stats, analysis, rssArticleCount, now)
  /\ out' = [NoOut EXCEPT !.event = "recorded", !.analysis = analysis,
                          !.count = rssArticleCount, !.calls = out.calls + 1]
  /\ UNCHANGED << isRunning, started, isAnalyzing, lastAnalysis, totalAnalyses,
                  retainedArticles, lastCleanup, cleanupCount, analysisCount,
                  searchCount, archive, now, task, begun >>

StatsNext ==
  \E arg \in StatsInputs(out.calls + 1) : RecordStats(arg[1], arg[2])

StatsSpec == Init /\ [][StatsNext]_vars

\* ------------------------------------------- the extraction on its own
\* extractJsonFromResponse on texts, a text being the sequence of its
\* characters.
\* The backtick and the double quote, written with apostrophes.
Backtick == "'"
Quote == "''"
Tick3 == << Backtick, Backtick, Backtick >>
WhiteSpace == { " ", "\n" }
MinOf(S) == CHOOSE x \in S : \A y \in S : x <= y
MaxOf(S) == CHOOSE x \in S : \A y \in S : x >= y

\* s.substring(from - 1, to) for 1-based positions
Between(s, from, to) == IF from > to THEN <<>> ELSE SubSeq(s, from, to)

\* s.trim()
Trim(s) ==
  LET keep == { i \in 1..Len(s) : s[i] \notin WhiteSpace }
  IN IF keep = {} THEN <<>> ELSE Between(s, MinOf(keep), MaxOf(keep))

\* s.replace(/^`+|`+$/g, "")
StripBackticks(s) ==
  LET keep == { i \in 1..Len(s) : s[i] # Backtick }
  IN IF keep = {} THEN <<>> ELSE Between(s, MinOf(keep), MaxOf(keep))

\* The positions where ``` stands.
FenceAt(s, i) == i >= 1 /\ i + 2 <= Len(s) /\ SubSeq(s, i, i + 2) = Tick3
Fences(s) == { i \in 1..Len(s) : FenceAt(s, i) }

\* (?:json)? under the i flag, from position p: the position after it.
LowerCase(c) ==
  CASE c = "J" -> "j" [] c = "S" -> "s" [] c = "O" -> "o" [] c = "N" -> "n" [] OTHER -> c
AfterTag(s, p) ==
  IF p + 3 <= Len(s)
     /\ [i \in 1..4 |-> LowerCase(s[p + i - 1])] = << "j", "s", "o", "n" >>
  THEN p + 4 ELSE p

\* \s*\n? from position p: the position after it.
AfterSpace(s, p) ==
  LET rest == { i \in p..Len(s) : s[i] \notin WhiteSpace }
  IN IF rest = {} THEN Len(s) + 1 ELSE MinOf(rest)

\* Where the lazy group that starts at q can end: before \n?```.
GroupEnds(s, q) ==
  { e \in q..Len(s) : FenceAt(s, e) \/ (s[e] = "\n" /\ FenceAt(s, e + 1)) }

\* content.match(/```(?:json)?\s*\n?([\s\S]*?)\n?```/i): [found, group].
\* The match starts at the first fence; it fails there only when no fence
\* follows, and then it fails at every later start as well.  The other two
\* patterns of the list match only where this one does.
FenceMatch(s) ==
  IF Fences(s) = {} THEN [found |-> FALSE, group |-> <<>>]
  ELSE LET q == AfterSpace(s, AfterTag(s, MinOf(Fences(s)) + 3))
       IN IF GroupEnds(s, q) = {} THEN [found |-> FALSE, group |-> <<>>]
          ELSE [found |-> TRUE, group |-> Between(s, q, MinOf(GroupEnds(s, q)) - 1)]

\* The part of extractJsonFromResponse after the patterns.
BraceSpan(s) ==
  LET open == { i \in 1..Len(s) : s[i] = "{" }
      close == { i \in 1..Len(s) : s[i] = "}" }
  IN IF open # {} /\ close # {} /\ MaxOf(close) > MinOf(open)
     THEN Between(s, MinOf(open), MaxOf(close))
     ELSE s

extractJsonFromResponse(content) ==
  IF FenceMatch(Trim(content)).found THEN Trim(FenceMatch(Trim(content)).group)
  ELSE BraceSpan(StripBackticks(Trim(content)))

\* JSON object texts: {}, {"a":1}, {"a":{}}, {"a":"}"} and {"a":"```"}.
JsonTexts ==
  { << "{", "}" >>,
    << "{", Quote, "a", Quote, ":", "1", "}" >>,
    << "{", Quote, "a", Quote, ":", "{", "}", "}" >>,
    << "{", Quote, "a", Quote, ":", Quote, "}", Quote, "}" >>,
    << "{", Quote, "a", Quote, ":", Quote, Backtick, Backtick, Backtick, Quote, "}" >> }

\* The ways a model wraps its JSON: a fenced block with or without the
\* json tag, backticks, prose before and after.
Tags == { <<>>, << "j", "s", "o", "n" >>, << "J", "S", "O", "N" >> }
Separators == { <<>>, << "\n" >>, << " ", "\n" >> }
Fenced(J) == { Tick3 \o tag \o sep \o J \o sep \o Tick3 : tag \in Tags, sep \in Separators }
FencedJson(J) == { c \in Fenced(J) : AfterTag(c, 4) = 8 }
Backticked(J) ==
  { << Backtick >> \o J \o << Backtick >>, << Backtick, Backtick >> \o J \o << Backtick, Backtick >> }
  \cup (Fenced(J) \ FencedJson(J))
Leads == { << "x", ":", " " >>, << "x", "\n" >>, << "{", "x", "}", " " >>,
           << Backtick, "x", Backtick, " " >> }
Trails == { << " ", "x" >>, << ".", "\n" >>, << " ", "x", "}" >> }
InProse(J) == { lead \o J \o trail : lead \in Leads, trail \in Trails }
Contents ==
  UNION { Fenced(J) \cup Backticked(J) \cup InProse(J) \cup { J, << " " >> \o J } :
          J \in JsonTexts }

\* extractJsonFromResponse(content); delivers the content and the result.
Extract(content) ==
  /\ out' = [NoOut EXCEPT !.event = "extracted", !.content = content,
                          !.text = extractJsonFromResponse(content)]
  /\ UNCHANGED << isRunning, started, isAnalyzing, lastAnalysis, totalAnalyses, stats,
                  retainedArticles, lastCleanup, cleanupCount, analysisCount,
                  searchCount, archive, now, task, begun >>

ExtractNext == \E content \in Contents : Extract(content)

ExtractSpec == Init /\ [][ExtractNext]_vars

\* ------------------------------------------------------------------ claims
ManualKinds == {"manual", "http"}

\* The step starts a cycle for a trigger of one of the kinds.
Begins(kinds) ==
  \E t \in Tasks : ~Running(t) /\ task'[t].pc # "idle" /\ task'[t].kind \in kinds

\* The step is a manual trigger: it starts a manual cycle or refuses one.
ManualTriggerStep == Begins(ManualKinds) \/ out'.event = "rejected"

\* The step is a scheduled trigger: it starts a scheduled cycle or drops one.
CronTriggerStep == Begins({"cron"}) \/ out'.event = "skipped"

\* The cycle of t ends in the step.
Ends(t) == Running(t) /\ task'[t].pc = "idle"

GuardedStateUnchanged ==
  UNCHANGED << totalAnalyses, stats, lastAnalysis, retainedArticles, isAnalyzing >>

\* C1: single-flight - in every reachable state at most one analysis cycle
\* is in progress, whatever the interleaving of cron, manual and HTTP triggers.
C1_SingleFlight == Cardinality(RunningSet) <= 1

\* A trigger has just been refused while a cycle is in progress.
C1_Witness == Cardinality(RunningSet) = 1 /\ out.event \in {"skipped", "rejected"}

\* C2: of two concurrent manual triggers, the one that arrives while the
\* other's cycle is in progress is rejected with "Analysis already in
\* progress" and leaves that cycle as it is; the cycle in progress ends
\* normally for its caller, and isAnalyzing is false once it has.
C2_TwoManualTriggers ==
  [][ /\ (\E t \in Tasks : Running(t) /\ task[t].kind \in ManualKinds)
         /\ ManualTriggerStep
         => /\ out'.event = "rejected"
            /\ out'.error = InProgressError
            /\ task' = task
            /\ begun' = begun
      /\ \A t \in Tasks :
           Ends(t) /\ task[t].kind \in ManualKinds
           => /\ out'.event = "ended"
              /\ out'.kind = task[t].kind
              /\ out'.error = NoError
              /\ out'.status = (IF task[t].kind = "http" THEN 200 ELSE 0)
              /\ RunningSet' = {}
              /\ ~isAnalyzing' ]_vars

\* A manual trigger has just been rejected while the cycle of another manual
\* trigger is in progress.
C2_Witness ==
  /\ out.event = "rejected" /\ out.kind = "manual"
  /\ \E t \in Tasks : Running(t) /\ task[t].kind = "http" /\ task[t].pc = "analyze"

\* C3: every cycle that was started increments totalAnalyses exactly once
\* and resets isAnalyzing when it ends, whichever way it ends; totalAnalyses
\* changes at no other step and equals the number of cycles begun and ended.
C3_CountedOnce ==
  [][ /\ \A t \in Tasks : Ends(t) => totalAnalyses' = totalAnalyses + 1 /\ ~isAnalyzing'
      /\ totalAnalyses' # totalAnalyses => \E t \in Tasks : Ends(t)
      /\ totalAnalyses' = begun' - Cardinality(RunningSet') ]_vars

\* A second cycle has just ended through the catch block.
C3_Witness == out.event = "ended" /\ out.ending = "exception" /\ totalAnalyses = 2

\* C4: liveness - when every upstream call returns or fails in the end, a
\* cycle in progress ends and isAnalyzing is false again.
C4_CycleEnds == \A t \in Tasks : Running(t) ~> (~Running(t) /\ ~isAnalyzing)

\* A trigger has started a new cycle after an earlier cycle ended.
C4_Witness == totalAnalyses >= 1 /\ isAnalyzing /\ RunningSet # {}

\* C5: isAnalyzing is true exactly while a cycle is in progress.
C5_FlagBracketsCycle == isAnalyzing <=> RunningSet # {}

\* A cycle is awaiting its archive write, its last upstream call.
C5_Witness == isAnalyzing /\ \E t \in Tasks : task[t].pc = "store"

\* C6: a manual trigger that arrives while isAnalyzing is true is rejected
\* with "Analysis already in progress" (status 429 on the route), starts no
\* cycle and leaves totalAnalyses, stats, lastAnalysis, the retention store,
\* the cycle in progress and isAnalyzing unchanged.
C6_ManualRejected ==
  [][ isAnalyzing /\ ManualTriggerStep
      => /\ out'.event = "rejected"
         /\ out'.kind \in ManualKinds
         /\ out'.error = InProgressError
         /\ out'.kind = "http" => out'.status = 429
         /\ ~Begins({"cron", "manual", "http"})
         /\ task' = task
         /\ GuardedStateUnchanged ]_vars

\* The route has just answered 429 while a cycle is awaiting the search.
C6_Witness ==
  /\ out.event = "rejected" /\ out.kind = "http" /\ out.status = 429
  /\ isAnalyzing /\ \E t \in Tasks : task[t].pc = "search"

\* C7: a scheduled trigger that fires while isAnalyzing is true is dropped:
\* no error, no cycle started, and totalAnalyses, stats, lastAnalysis, the
\* retention store, the cycle in progress and isAnalyzing are unchanged.
C7_ScheduledDropped ==
  [][ isAnalyzing /\ CronTriggerStep
      => /\ out'.event = "skipped"
         /\ out'.kind = "cron"
         /\ out'.error = NoError
         /\ ~Begins({"cron", "manual", "http"})
         /\ task' = task
         /\ GuardedStateUnchanged ]_vars

\* The cron callback has just skipped while the service runs and a cycle is
\* awaiting the model.
C7_Witness ==
  /\ out.event = "skipped" /\ isRunning /\ isAnalyzing
  /\ \E t \in Tasks : task[t].pc = "analyze"


\* The cycle of t takes its step from the search to the no-content test.
PastSearch(t) == task[t].pc = "search" /\ task'[t].pc # "search"

\* The search result that step works on.
SearchResultOf(t) == IF task'[t].pc = "idle" THEN out'.search ELSE task'[t].search

\* The result holds no event: an empty sequence, or a value without length.
ZeroEvents(res) == ~(res.global_news_events.len > 0)

\* The cycle ends in the step without a model call, an archive write, a
\* CycleRecord or a change of lastAnalysis, and resets the flag.
AbortsCleanly(t) ==
  /\ Ends(t)
  /\ analysisCount' = analysisCount
  /\ archive' = archive
  /\ stats'.recentAnalyses = stats.recentAnalyses
  /\ stats'.totalArticlesProcessed = stats.totalArticlesProcessed
  /\ stats'.criticalAlertsGenerated = stats.criticalAlertsGenerated
  /\ stats'.highImpactEventsDetected = stats.highImpactEventsDetected
  /\ lastAnalysis' = lastAnalysis
  /\ ~isAnalyzing'
  /\ totalAnalyses' = totalAnalyses + 1

\* C8 (as amended): in a cycle whose snapshot is empty and whose search
\* result has zero events the model is not called, nothing is archived, no
\* CycleRecord is prepended, the counters of the cycle statistics
\* (totalArticlesProcessed, criticalAlertsGenerated, highImpactEventsDetected)
\* and lastAnalysis are unchanged and isAnalyzing is reset; the search's own
\* counter stats.totalPerplexitySearches is not covered.
C8_NoContentAbort ==
  [][ \A t \in Tasks :
        PastSearch(t) /\ task[t].retained = <<>> /\ ZeroEvents(SearchResultOf(t))
        => AbortsCleanly(t) ]_vars

\* C8 (original): as above, with every counter of stats unchanged.
C8_Original ==
  [][ \A t \in Tasks :
        PastSearch(t) /\ task[t].retained = <<>> /\ ZeroEvents(SearchResultOf(t))
        => /\ AbortsCleanly(t)
           /\ stats'.totalPerplexitySearches = stats.totalPerplexitySearches ]_vars

\* A cycle with an empty snapshot has just ended on a successful search that
\* found no events.
C8_Witness ==
  /\ out.event = "ended" /\ out.ending = "nocontent" /\ out.retained = <<>>
  /\ out.search.error = NoError /\ out.search.global_news_events.len = 0
  /\ ~isAnalyzing /\ archive = <<>> /\ stats.recentAnalyses = <<>>

IsDegraded(analysis) == analysis.error # NoError

\* The step is the return of the archive write of t, and it prepends the
\* CycleRecord of the assessment and replaces lastAnalysis by it.
RecordsAssessment(t, analysis) ==
  /\ task[t].pc = "store"
  /\ archive' = archive
     \/ archive' = Append(archive, [analysis |-> analysis.analysis,
                                    summary |-> analysis.summary,
                                    events |-> analysis.events,
                                    marketInfluence |-> analysis.market_influence])
  /\ Len(stats'.recentAnalyses) = Len(stats.recentAnalyses) + 1
  /\ stats'.recentAnalyses[1].marketInfluence = analysis.market_influence
  /\ stats'.recentAnalyses[1].eventsCount = Len(analysis.events)
  /\ stats'.recentAnalyses[1].summary = analysis.summary
  /\ stats'.totalArticlesProcessed = stats.totalArticlesProcessed + Len(task[t].retained)
  /\ lastAnalysis'.marketInfluence = analysis.market_influence
  /\ lastAnalysis'.eventsCount = Len(analysis.events)
  /\ lastAnalysis'.summary = analysis.summary
  /\ lastAnalysis'.analysisId = (IF archive' = archive THEN Undefined ELSE Len(archive'))

CannotValidate(res) ==
  /\ res.kind = "text"
  /\ \/ res.parsed.kind = "unparsable"
     \/ /\ res.parsed.kind = "object"
        /\ \/ Absent \in {res.parsed.analysis, res.parsed.summary,
                          res.parsed.market_influence}
           \/ res.parsed.events.shape = "absent"

\* C10: when the model's output cannot be parsed or validated, the cycle goes
\* on with an assessment that has market_influence "minimal", no events, the
\* explanatory analysis and summary text and an error description, and that
\* is what it hands to the archive and records.
C10_DegradedOnBadOutput ==
  [][ \A t \in Tasks :
        task[t].pc = "store" /\ CannotValidate(task[t].response)
        => /\ task[t].analysis.market_influence = "minimal"
           /\ task[t].analysis.events = <<>>
           /\ task[t].analysis.analysis = TechnicalError
           /\ task[t].analysis.summary = TechnicalError
           /\ task[t].analysis.error \notin {NoError, NoText}
           /\ Ends(t) =>
                /\ out'.ending = "normal"
                /\ stats'.recentAnalyses[1].marketInfluence = "minimal"
                /\ stats'.recentAnalyses[1].eventsCount = 0
                /\ lastAnalysis'.marketInfluence = "minimal"
                /\ archive' # archive =>
                     /\ archive'[Len(archive')].marketInfluence = "minimal"
                     /\ archive'[Len(archive')].events = <<>> ]_vars

\* A cycle whose model answered with unparsable text has just archived and
\* recorded its assessment.
C10_Witness ==
  /\ out.event = "ended" /\ out.ending = "normal"
  /\ out.analysis.error = "Failed to parse analysis response: Unexpected token"
  /\ Len(archive) = 1 /\ archive[1].marketInfluence = "minimal"

\* The statistics of the step are those of before with the assessment
\* counted: the articles, the two alert counters and the newest CycleRecord.
CountsAssessment(t, analysis) ==
  /\ stats'.totalArticlesProcessed = stats.totalArticlesProcessed + Len(task[t].retained)
  /\ stats'.criticalAlertsGenerated =
       stats.criticalAlertsGenerated + (IF analysis.market_influence = "major" THEN 1 ELSE 0)
  /\ stats'.highImpactEventsDetected =
       stats.highImpactEventsDetected
       + (IF analysis.market_influence \in {"significant", "major"} THEN 1 ELSE 0)
  /\ Len(stats'.recentAnalyses) = Len(stats.recentAnalyses) + 1
  /\ SubSeq(stats'.recentAnalyses, 2, Len(stats'.recentAnalyses)) = stats.recentAnalyses

\* C11: when the archive write of a cycle fails, storeCombinedAnalysis
\* recovers it (no exception reaches the cycle's catch block) and the cycle
\* still prepends its CycleRecord, updates the counters of stats and sets
\* lastAnalysis from the assessment, with no archive identifier, and ends
\* normally.
C11_ArchiveFailureRecovered ==
  [][ \A t \in Tasks :
        task[t].pc = "store" /\ task'[t].pc # "store" /\ archive' = archive
        => /\ Ends(t)
           /\ out'.ending = "normal"
           /\ RecordsAssessment(t, task[t].analysis)
           /\ CountsAssessment(t, task[t].analysis)
           /\ lastAnalysis'.analysisId = Undefined
           /\ lastAnalysis'.timestamp = now
           /\ ~isAnalyzing' ]_vars

\* A cycle with a valid "significant" assessment has just ended after its
\* archive write failed.
C11_Witness ==
  /\ out.event = "ended" /\ out.ending = "normal"
  /\ out.analysis.market_influence = "significant" /\ out.analysis.error = NoError
  /\ archive = <<>> /\ lastAnalysis.analysisId = Undefined
  /\ lastAnalysis.marketInfluence = "significant"
  /\ stats.highImpactEventsDetected = 1 /\ Len(stats.recentAnalyses) = 1

\* The feed request failed, or the feed answered success = false.
FeedFailed(kind) == kind \in {"transport", "failure"}

\* The cycle of t has something to analyze after its search: a retained
\* article or a search event.
HasContent(t) ==
  task[t].retained # <<>> \/ SearchResultOf(t).global_news_events.len > 0

\* C12: a failed source does not abort a cycle.  A failed feed fetch leaves
\* the store as it is and the cycle goes on to the search with the snapshot
\* of the store; a cycle that after its search has a retained article or a
\* search event (whether or not the feed or the search failed) goes on to
\* the analysis, the analysis yields an assessment, and the assessment is
\* handed to the archive and recorded.
C12_PartialFailureContinues ==
  [][ \A t \in Tasks :
        /\ task[t].pc = "fetch" /\ task'[t].pc # "fetch" /\ FeedFailed(out'.upstream)
           => /\ task'[t].pc = "search"
              /\ retainedArticles' = retainedArticles
              /\ task'[t].retained = getRetainedArticles(retainedArticles)
        /\ PastSearch(t) /\ HasContent(t)
           => /\ task'[t].pc \in {"analyze", "store"}
              /\ task'[t].retained = task[t].retained
              /\ task'[t].pc = "store" => task'[t].analysis \notin {NullAnalysis, NoAnalysis}
        /\ task[t].pc = "analyze" /\ task'[t].pc # "analyze"
           => /\ task'[t].pc = "store"
              /\ task'[t].analysis \notin {NullAnalysis, NoAnalysis}
        /\ task[t].pc = "store" /\ task'[t].pc # "store"
           => /\ out'.ending = "normal"
              /\ RecordsAssessment(t, task[t].analysis) ]_vars

\* The feed request of a second cycle has just failed while the store holds
\* an article of the first cycle; that first cycle's search failed and its
\* assessment was recorded.
C12_Witness ==
  /\ out.event = "fetched" /\ FeedFailed(out.upstream)
  /\ \E t \in Tasks : task[t].pc = "search" /\ task[t].retained # <<>>
  /\ totalAnalyses = 1 /\ Len(stats.recentAnalyses) = 1
  /\ stats.totalArticlesProcessed >= 1
  /\ stats.lastPerplexitySearch = Undefined

\* The store holds an entry for exactly this article.
Holds(store, article) == \E i \in 1..Len(store) : store[i].article = article

\* C13: idempotent ingestion - a batch that holds one article, once or
\* twice, whose identity the store does not hold yet increases the store
\* size by exactly 1 and counts 1 new article; a batch of an article the
\* store holds already (inserted by an earlier call and not evicted since)
\* leaves the store as it is and counts 0 new articles.
C13_IdempotentIngestion ==
  [][ out'.event = "added" =>
        \A a \in {out'.retained[i] : i \in 1..Len(out'.retained)} :
          /\ out'.retained \in {<<a>>, <<a, a>>}
             /\ ~has(retainedArticles, generateArticleId(a))
             => /\ Len(retainedArticles') = Len(retainedArticles) + 1
                /\ out'.count = 1
                /\ Holds(retainedArticles', a)
          /\ out'.retained \in {<<a>>, <<a, a>>} /\ Holds(retainedArticles, a)
             => /\ retainedArticles' = retainedArticles
                /\ out'.count = 0 ]_vars

\* The batch <<A1, A1>> has just been inserted into a store that held A1
\* from an earlier call, and the store still holds it once.
C13_Witness ==
  /\ out.event = "added" /\ out.retained = <<A1, A1>> /\ out.count = 0
  /\ Cardinality({i \in 1..Len(retainedArticles) : retainedArticles[i].article = A1}) = 1
  /\ \E i \in 1..Len(retainedArticles) :
       retainedArticles[i].article = A1 /\ retainedArticles[i].timestamp < now

\* The entries of a store, as a set.
Entries(store) == {store[i] : i \in 1..Len(store)}

\* C14: eviction correctness - a cleanup at time t leaves no entry whose
\* age t - ingestedAt exceeds the retention window, keeps every entry whose
\* age is at most the window (an entry of age exactly the window included),
\* adds nothing, and the count the manual cleanup returns is the number of
\* entries removed.
C14_EvictionCorrect ==
  [][ cleanupCount' = cleanupCount + 1 =>
        /\ \A e \in Entries(retainedArticles') : now - e.timestamp <= ARTICLE_RETENTION_HOURS
        /\ \A e \in Entries(retainedArticles) :
             now - e.timestamp <= ARTICLE_RETENTION_HOURS => e \in Entries(retainedArticles')
        /\ Entries(retainedArticles') \subseteq Entries(retainedArticles)
        /\ Len(retainedArticles') = Cardinality(Entries(retainedArticles'))
        /\ out'.event = "cleaned" => out'.count = Len(retainedArticles) - Len(retainedArticles') ]_vars

\* A manual cleanup has just removed an entry older than the window and kept
\* one whose age is exactly the window.
C14_Witness ==
  /\ out.event = "cleaned" /\ out.count >= 1
  /\ \E e \in Entries(retainedArticles) : now - e.timestamp = ARTICLE_RETENTION_HOURS

\* Every entry of the store is whole: it holds an article, the identity of
\* that article and an ingestion time; no identity is held twice.
WholeEntries(store, t) ==
  /\ \A e \in Entries(store) :
       /\ ~e.article.null
       /\ e.id = generateArticleId(e.article)
       /\ e.timestamp \in 0..t
  /\ Cardinality(StoreIds(store)) = Len(store)

\* C15: each store operation takes effect in one step, however cycles,
\* cleanups and reads interleave.  The snapshot a cycle takes, and the one a
\* read returns, is the sequence of the articles of the store as it is at
\* the end of that step; an insertion leaves the entries there were as they
\* are and adds whole entries stamped with the time of the call; a cleanup
\* leaves the entries it keeps as they are; the store holds whole entries
\* only, also after a batch that was inserted in part.
C15_StoreOperationsAtomic ==
  [][ /\ \A t \in Tasks :
           task[t].pc = "fetch" /\ task'[t].pc = "search"
           => task'[t].retained = [i \in 1..Len(retainedArticles') |->
                                     retainedArticles'[i].article]
      /\ out'.event = "snapshot"
         => /\ retainedArticles' = retainedArticles
            /\ out'.retained = [i \in 1..Len(retainedArticles) |-> retainedArticles[i].article]
      /\ (\E t \in Tasks : task[t].pc = "fetch" /\ task'[t].pc # "fetch")
         => /\ SubSeq(retainedArticles', 1, Len(retainedArticles)) = retainedArticles
            /\ \A i \in (Len(retainedArticles) + 1)..Len(retainedArticles') :
                 retainedArticles'[i].timestamp = now
      /\ cleanupCount' # cleanupCount
         => /\ Entries(retainedArticles') \subseteq Entries(retainedArticles)
            /\ task' = task
      /\ WholeEntries(retainedArticles', now') ]_vars

\* A manual cleanup has just evicted an article that the snapshot of the
\* cycle in progress holds.
C15_Witness ==
  /\ out.event = "cleaned" /\ out.count >= 1
  /\ \E t \in Tasks :
       /\ task[t].pc = "search"
       /\ \E i \in 1..Len(task[t].retained) :
            ~Holds(retainedArticles, task[t].retained[i])

\* C16: every result of the search has total_events equal to the length of
\* its events value, on the success path (whatever total_events the upstream
\* response carried) and on the two failure paths; an events value that has
\* no length leaves total_events undefined as well.
C16_TotalIsRecomputed ==
  out.event = "searched" =>
    /\ out.search.total_events = out.search.global_news_events.len
    /\ out.search.global_news_events.shape = "array" => out.search.total_events >= 0

\* A search has just returned two events for a response that said
\* total_events 0.
C16_Witness ==
  /\ out.event = "searched" /\ out.response.kind = "parsed"
  /\ out.response.total = 0 /\ out.search.total_events = 2
  /\ out.search.global_news_events.len = 2

\* C17: the search returns a result for every upstream outcome (the route
\* answers 200), and for every failure outcome - the request fails or times
\* out, the response has no body or choices, the text does not parse or
\* parses to something that is not an object - the result has an empty
\* events sequence, total_events 0 and an error text; a failure neither
\* counts as a search.
C17_SearchNeverThrows ==
  [][ out'.event = "searched" =>
        /\ out'.status = 200
        /\ out'.search # NoSearch
        /\ out'.response.kind # "parsed" =>
             /\ out'.search.global_news_events = Events("array", 0, TRUE)
             /\ out'.search.total_events = 0
             /\ out'.search.error \notin {NoError, NoText}
             /\ searchCount' = searchCount
        /\ out'.response.kind = "parsed" => out'.search.error = NoError ]_vars

\* A search whose answer did not parse has just returned its placeholder.
C17_Witness ==
  /\ out.event = "searched" /\ out.response.kind = "unparsable"
  /\ out.search.error = "JSON parsing failed" /\ out.search.total_events = 0

\* C18: analyzeCombinedNews returns null exactly when there is no retained
\* article and the search result counts no event (an empty sequence, or a
\* value without a length); in every other case - the model answers well,
\* badly or not at all, or the prompt cannot be formatted - it returns an
\* assessment object.
C18_NullIffNothingToAnalyze ==
  out.event = "analyzed" =>
    /\ out.analysis # NoAnalysis
    /\ out.analysis = NullAnalysis <=> (out.retained = <<>> /\ ZeroEvents(out.search))
    /\ out.analysis # NullAnalysis =>
         out.analysis.market_influence \notin {Absent, "<null>", "<unset>"}

\* The call has just returned an assessment for no article and two events
\* although the model did not answer.
C18_Witness ==
  /\ out.event = "analyzed" /\ out.retained = <<>>
  /\ out.search.total_events = 2 /\ out.upstream = "transport"
  /\ out.analysis # NullAnalysis /\ out.analysis.market_influence = "minimal"

\* The assessment has its four fields, none of them absent or falsy but the
\* events, which are a sequence of notes with title, summary and analysis.
Complete(analysis) ==
  /\ analysis.analysis \notin {Absent, NoText}
  /\ analysis.summary \notin {Absent, NoText}
  /\ analysis.market_influence \notin {Absent, NoText}
  /\ DOMAIN analysis.events = 1..Len(analysis.events)
  /\ \A i \in 1..Len(analysis.events) :
       /\ analysis.events[i].title \notin {Absent, NoText}
       /\ analysis.events[i].summary \notin {Absent, NoText}
       /\ analysis.events[i].analysis \notin {Absent, NoText}

\* C19: every assessment analyzeCombinedNews returns, null apart, has the
\* four fields analysis, summary, market_influence and events, with events a
\* sequence, whatever the model response was.
C19_AssessmentComplete ==
  out.event = "analyzed" /\ out.analysis # NullAnalysis => Complete(out.analysis)

\* The call has just returned for a model response whose object has none of
\* the four fields.
C19_Witness ==
  /\ out.event = "analyzed" /\ out.response.kind = "text"
  /\ out.response.parsed.kind = "object"
  /\ out.response.parsed.analysis = Absent /\ out.response.parsed.summary = Absent
  /\ out.response.parsed.market_influence = Absent
  /\ out.response.parsed.events.shape = "absent"
  /\ out.analysis # NullAnalysis

\* The model answered with an object that lacks a required field.
LacksField(res) ==
  /\ res.kind = "text" /\ res.parsed.kind = "object"
  /\ \/ Absent \in {res.parsed.analysis, res.parsed.summary, res.parsed.market_influence}
     \/ res.parsed.events.shape = "absent"

\* C20 (original): for a parsed object that lacks required fields the result
\* has all four fields, with a non-empty placeholder in every position that
\* was absent.
C20_Original ==
  out.event = "analyzed" /\ LacksField(out.response) =>
    /\ Complete(out.analysis)
    /\ out.response.parsed.events.shape = "absent" => out.analysis.events # <<>>

\* C20 (as amended): for a parsed object that lacks required fields the
\* result is the degraded assessment: it has all four fields, analysis,
\* summary and market_influence hold the fixed non-empty texts (the fields
\* the object did carry are replaced too), events is the empty sequence and
\* the error names the first field that was missing.
C20_ValidationCompleteness ==
  out.event = "analyzed" /\ LacksField(out.response) =>
    /\ Complete(out.analysis)
    /\ out.analysis.analysis = TechnicalError
    /\ out.analysis.summary = TechnicalError
    /\ out.analysis.market_influence = "minimal"
    /\ out.analysis.events = <<>>
    /\ out.analysis.error = MissingFieldError(FirstMissing(out.response.parsed))

\* The call has just returned for an object that lacks its events only.
C20_Witness ==
  /\ out.event = "analyzed" /\ LacksField(out.response)
  /\ out.response.parsed.events.shape = "absent"
  /\ out.response.parsed.analysis = "an" /\ out.response.parsed.summary = "su"
  /\ out.analysis.events = <<>>
  /\ out.analysis.error =
       "Failed to parse analysis response: Missing required field: events"

\* The four values of the market influence scale.
InfluenceScale == {"minimal", "moderate", "significant", "major"}

\* C21: the market_influence of every assessment analyzeCombinedNews
\* returns is one of minimal, moderate, significant and major, whatever the
\* model response carried in that field.
C21_InfluenceOnScale ==
  out.event = "analyzed" /\ out.analysis # NullAnalysis
  => out.analysis.market_influence \in InfluenceScale

Bump(c) == IF c THEN 1 ELSE 0
Min(a, b) == IF a <= b THEN a ELSE b
History == stats.recentAnalyses

\* C22: a call of updateServiceStats adds the article count it is given to
\* totalArticlesProcessed, raises criticalAlertsGenerated by 1 exactly when
\* market_influence is "major" and highImpactEventsDetected by 1 exactly
\* when it is "significant" or "major", and puts a record with the
\* assessment's influence, summary and number of events at the head of the
\* history.
C22_RecordCounts ==
  [][out'.event = "recorded" =>
       /\ stats'.totalArticlesProcessed = stats.totalArticlesProcessed + out'.count
       /\ stats'.criticalAlertsGenerated =
            stats.criticalAlertsGenerated
              + Bump(out'.analysis.market_influence = "major")
       /\ stats'.highImpactEventsDetected =
            stats.highImpactEventsDetected
              + Bump(out'.analysis.market_influence \in {"significant", "major"})
       /\ stats'.recentAnalyses[1].eventsCount = Len(out'.analysis.events)
       /\ stats'.recentAnalyses[1].marketInfluence = out'.analysis.market_influence
       /\ stats'.recentAnalyses[1].summary = out'.analysis.summary]_vars

\* A first cycle with 3 articles and a "significant" assessment of 2 events.
C22_Witness ==
  /\ out.event = "recorded" /\ out.calls = 1 /\ out.count = 3
  /\ out.analysis.market_influence = "significant" /\ Len(out.analysis.events) = 2
  /\ stats.highImpactEventsDetected = 1
  /\ stats.criticalAlertsGenerated = 0
  /\ stats.totalArticlesProcessed = 3
  /\ History[1].eventsCount = 2

\* C23: the history never holds more than 10 records and is newest-first:
\* after k recorded cycles it holds min(k, 10) records, the record of the
\* latest cycle first and the records it held before shifted by one place,
\* the oldest one dropped once there are 10; counted from the head, the
\* i-th record is the one of the i-th latest cycle.
C23_HistoryBoundedNewestFirst ==
  [][/\ Len(History') <= MaxHistory
     /\ Len(History') = Min(out'.calls, MaxHistory)
     /\ out'.event = "recorded" =>
          /\ History'[1] = CycleRecord(out'.analysis, now)
          /\ \A i \in 2..Len(History') : History'[i] = History[i - 1]
     /\ \A i \in 1..Len(History') :
          out'.calls - i + 1 > VariedCalls
          => History'[i].eventsCount = FillerEvents(out'.calls - i + 1)]_vars

\* An eleventh cycle has been recorded and the first one is gone.
C23_Witness ==
  /\ out.calls = MaxHistory + 1
  /\ Len(History) = MaxHistory
  /\ History[1].eventsCount = FillerEvents(MaxHistory + 1)
  /\ History[MaxHistory].eventsCount = 1
  /\ History[MaxHistory].marketInfluence = "moderate"

\* C24: for every JSON object text J, extractJsonFromResponse applied to J
\* in a fenced json block, to J in backticks, or to J with prose before and
\* after yields exactly J.
C24_ExtractionRoundTrip ==
  out.event = "extracted"
  => \A J \in JsonTexts :
       out.content \in FencedJson(J) \cup Backticked(J) \cup InProse(J)
       => out.text = J

\* The identities of the articles of a batch.
BatchIds(batch) == {generateArticleId(batch[i]) : i \in 1..Len(batch)}

\* C25: addArticles returns the number of identities of the batch that the
\* store did not hold before the call, which is the growth of the store, and
\* it changes no entry the store held: an article seen again keeps the
\* article and the ingestion time of its first sight.
C25_InsertCountsNewOnly ==
  [][out'.event = "added" =>
       /\ out'.count = Len(retainedArticles') - Len(retainedArticles)
       /\ out'.count = Cardinality(BatchIds(out'.retained) \ StoreIds(retainedArticles))
       /\ SubSeq(retainedArticles', 1, Len(retainedArticles)) = retainedArticles
       /\ \A e \in Entries(retainedArticles') \ Entries(retainedArticles) :
            e.timestamp = now /\ e.id \in BatchIds(out'.retained)]_vars

\* A batch has just been inserted whose only identity the store held from an
\* earlier hour: nothing is counted and the entry keeps its first time.
C25_Witness ==
  /\ out.event = "added" /\ out.retained = <<A2>> /\ out.count = 0
  /\ Len(retainedArticles) = 1
  /\ retainedArticles[1].id = generateArticleId(A2)
  /\ retainedArticles[1].article = A1
  /\ retainedArticles[1].timestamp < now

\* C26: the read of the retained articles changes nothing of the store
\* (entries, their articles and ingestion times, cleanupCount, lastCleanup)
\* and returns one article for each entry of the store, in the store's order.
C26_SnapshotReadOnly ==
  [][out'.event = "snapshot" =>
       /\ UNCHANGED << retainedArticles, cleanupCount, lastCleanup >>
       /\ Len(out'.retained) = Len(retainedArticles)
       /\ out'.count = Len(retainedArticles)
       /\ \A i \in 1..Len(retainedArticles) :
            out'.retained[i] = retainedArticles[i].article]_vars

\* A read of a store of three entries ingested at different hours, after a
\* cleanup.
C26_Witness ==
  /\ out.event = "snapshot" /\ out.count = 3
  /\ cleanupCount = 1 /\ lastCleanup < now
  /\ retainedArticles[1].timestamp < retainedArticles[3].timestamp

\* C27: entries leave the store only through a cleanup - a step of a cycle,
\* a trigger or a read that runs no cleanup removes no identity from the
\* store and does not make it smaller.
C27_OnlyCleanupRemoves ==
  [][cleanupCount' = cleanupCount =>
       /\ StoreIds(retainedArticles) \subseteq StoreIds(retainedArticles')
       /\ Entries(retainedArticles) \subseteq Entries(retainedArticles')
       /\ Len(retainedArticles') >= Len(retainedArticles)]_vars

\* Two cycles have inserted articles hours apart, no cleanup has run, and a
\* read finds the article that is older than the window still retained.
C27_Witness ==
  /\ cleanupCount = 0 /\ totalAnalyses >= 2 /\ out.event = "snapshot"
  /\ Len(retainedArticles) = 2
  /\ now - retainedArticles[1].timestamp > ARTICLE_RETENTION_HOURS

\* A step of a cleanup trigger that cleans: the route, or the cron callback
\* while the service is running.
CleanupTriggerStep ==
  out'.event = "cleaned" \/ (out'.event = "cleanup" /\ isRunning)

\* C28: a cleanup trigger (the cron callback while the service is running,
\* or the route) evicts whether or not a cycle is in progress: it removes
\* exactly the expired entries, increments cleanupCount, sets lastCleanup to
\* the current time, and leaves isAnalyzing, totalAnalyses, the statistics,
\* lastAnalysis and the cycles in progress as they were.
C28_CleanupNotGated ==
  [][CleanupTriggerStep =>
       /\ cleanupCount' = cleanupCount + 1
       /\ lastCleanup' = now
       /\ Entries(retainedArticles') =
            {e \in Entries(retainedArticles) : ~Expired(e, now)}
       /\ UNCHANGED << isAnalyzing, totalAnalyses, stats, lastAnalysis, task >>]_vars

\* The cron cleanup has just emptied the store while a cycle waits for the
\* model with the evicted article in its snapshot.
C28_Witness ==
  /\ out.event = "cleanup" /\ isAnalyzing /\ cleanupCount = 1 /\ lastCleanup = now
  /\ retainedArticles = <<>>
  /\ \E t \in Tasks : task[t].pc = "analyze" /\ Len(task[t].retained) >= 1

\* The elements of a sequence.
Range(seq) == {seq[i] : i \in 1..Len(seq)}

\* C29: the corpus of a cycle is the content of the store right after the
\* cycle's insert: it holds every article the cycle fetched and every article
\* the store retained before, and a cleanup that runs later in the cycle
\* changes neither the corpus nor the article count the cycle records.
C29_CorpusAfterInsert ==
  [][/\ \A t \in Tasks : \A res \in TimedFeed :
          FetchReturn(t, res) /\ task'[t].pc = "search"
          => /\ task'[t].retained = getRetainedArticles(retainedArticles')
             /\ Range(fetchRecentArticles(res)) \subseteq Range(task'[t].retained)
             /\ \A e \in Entries(retainedArticles) : e.article \in Range(task'[t].retained)
     /\ cleanupCount' # cleanupCount => task' = task
     /\ \A t \in Tasks :
          task[t].pc = "store" /\ task'[t].pc = "idle"
          => stats'.totalArticlesProcessed =
               stats.totalArticlesProcessed + Len(task[t].retained)]_vars

\* The model answered with an object that has the four required fields.
HasAllFields(res) ==
  res.kind = "text" /\ res.parsed.kind = "object" /\ FirstMissing(res.parsed) = "<none>"

\* C30: when the parsed model object has the four required fields, the
\* result is not a failure; an events value that is not an array becomes the
\* empty sequence, and an events array gives a sequence of the same length
\* and order whose elements have a non-empty title, summary and analysis: a
\* missing title at position i is "Event i", a missing summary or analysis
\* is the fixed text, a field that is there is kept.
C30_EventsSanitized ==
  out.event = "analyzed" /\ HasAllFields(out.response) =>
    LET given == out.response.parsed.events
        events == out.analysis.events
    IN /\ out.analysis.error = NoError
       /\ given.shape # "array" => events = <<>>
       /\ given.shape = "array" =>
            /\ Len(events) = Len(given.elems)
            /\ \A i \in 1..Len(events) :
                 /\ events[i].title =
                      IF given.elems[i].title \in {Absent, NoText}
                      THEN EventTitle(i) ELSE given.elems[i].title
                 /\ events[i].summary = OrText(given.elems[i].summary, NoSummaryText)
                 /\ events[i].analysis = OrText(given.elems[i].analysis, NoAnalysisText)

\* C31: a parsed model object that lacks one of analysis, summary,
\* market_influence and events fails validation with the error "Missing
\* required field: <field>" for the first field missing in that order, and
\* the call returns the degraded assessment carrying that message.
C31_MissingFieldNamed ==
  out.event = "analyzed" /\ LacksField(out.response) =>
    LET p == out.response.parsed
        named ==
          IF p.analysis = Absent THEN "analysis"
          ELSE IF p.summary = Absent THEN "summary"
          ELSE IF p.market_influence = Absent THEN "market_influence"
          ELSE "events"
    IN /\ parseAnalysisResponse(p).ok = FALSE
       /\ parseAnalysisResponse(p).error = MissingFieldError(named)
       /\ out.analysis = Degraded(MissingFieldError(named))
       /\ out.upstream = "text"

\* The call has just returned for an object that lacks all four fields: the
\* error names the first of them.
C31_Witness ==
  /\ out.event = "analyzed" /\ LacksField(out.response)
  /\ out.response.parsed.analysis = Absent
  /\ out.response.parsed.market_influence = Absent
  /\ out.response.parsed.events.shape = "absent"
  /\ out.analysis.error =
       "Failed to parse analysis response: Missing required field: analysis"
  /\ out.analysis.market_influence = "minimal"

\* C32: analysisCount increases by 1 on a call of analyzeCombinedNews whose
\* model response is parsed and validated, and is unchanged on a null return
\* and on a call that ends in the degraded assessment (transport failure, no
\* choices, parse or validation failure).
C32_CountsParsedOnly ==
  [][out'.event = "analyzed" =>
       analysisCount' =
         analysisCount
           + Bump(/\ out'.analysis # NullAnalysis
                  /\ out'.analysis.error = NoError
                  /\ out'.response.kind = "text")]_vars

\* A call has just returned with a parsed assessment and the counter is 1.
C32_Witness ==
  /\ out.event = "analyzed" /\ out.analysis.error = NoError
  /\ out.analysis.market_influence = "significant"
  /\ analysisCount = 1

\* The bytes of a field, a missing field counting as the empty string.
FieldBytes(f) == IF f = Missing THEN <<>> ELSE f
ContentBytes(article) ==
  FieldBytes(article.title) \o FieldBytes(article.url) \o FieldBytes(article.publishedAt)
\* The length of the base64 text of n bytes.
Base64Length(n) == 4 * ((n + 2) \div 3)

C34_DistinctRetainedSeparately ==
  [][out'.event = "added" =>
       LET batch == out'.retained IN
       /\ Len(batch) = 2
       /\ ContentBytes(batch[1]) # ContentBytes(batch[2])
       /\ ~Holds(retainedArticles, batch[1])
       /\ ~Holds(retainedArticles, batch[2])
       => /\ generateArticleId(batch[1]) # generateArticleId(batch[2])
          /\ Len(retainedArticles') = Len(retainedArticles) + 2
          /\ out'.count = 2
          /\ Range(batch) \subseteq Range(getRetainedArticles(retainedArticles'))]_vars

\* C35: every article of a snapshot, the one a cycle passes to the analysis
\* or the one the read of the retained articles returns, was ingested at most
\* the retention window before the snapshot is taken.
C35_CorpusWithinWindow ==
  [][/\ out'.event = "snapshot"
        => \A e \in Entries(retainedArticles) :
             now - e.timestamp <= ARTICLE_RETENTION_HOURS
     /\ \A t \in Tasks :
          task[t].pc = "fetch" /\ task'[t].pc = "search"
          => \A e \in Entries(retainedArticles') :
               now - e.timestamp <= ARTICLE_RETENTION_HOURS]_vars

\* C36: a cycle that passes the orchestrator's no-content test (its snapshot
\* or the events of its search result are not empty) gets an assessment from
\* analyzeCombinedNews, never null: it goes on to the model call or to the
\* archive write and does not end on the null-analysis return.
C36_ContentTestsAgree ==
  [][\A t \in Tasks : \A res \in SearchUpstream :
       SearchReturn(t, res) /\ ~NoContent(task[t].retained, searchGlobalNews(res))
       => /\ analyzeEntry(task[t].retained, searchGlobalNews(res)) # "null"
          /\ task'[t].pc \in {"analyze", "store"}
          /\ out'.ending # "nullanalysis"]_vars

\* lastAnalysis is null exactly when the history is empty, and otherwise
\* agrees with the newest record of the history.
HeadConsistent ==
  /\ lastAnalysis = NoLastAnalysis <=> History = <<>>
  /\ History # <<>> =>
       /\ lastAnalysis.marketInfluence = History[1].marketInfluence
       /\ lastAnalysis.eventsCount = History[1].eventsCount
       /\ lastAnalysis.summary = History[1].summary
       /\ lastAnalysis.timestamp = History[1].timestamp

\* The answer of the archive reaches a cycle that waits for it.
ArchiveAnswered == \E t \in Tasks : task[t].pc = "store" /\ task'[t].pc # "store"

\* C37: in every state lastAnalysis is null iff the history is empty and
\* otherwise has the marketInfluence, eventsCount and summary of the newest
\* record; a cycle prepends a record and replaces lastAnalysis in the one
\* step in which its archive write has been answered (whether the write
\* succeeded or not), and no other step changes either.
C37_LastAnalysisMatchesHistory ==
  /\ []HeadConsistent
  /\ [][/\ \A t \in Tasks :
             task[t].pc = "store" /\ task'[t].pc # "store"
             => /\ History' = Truncate(<<CycleRecord(task[t].analysis, now)>> \o History)
                /\ lastAnalysis'.summary = task[t].analysis.summary
                /\ lastAnalysis'.marketInfluence = task[t].analysis.market_influence
                /\ lastAnalysis'.eventsCount = Len(task[t].analysis.events)
                /\ out'.ending = "normal"
        /\ ~ArchiveAnswered => UNCHANGED << stats.recentAnalyses, lastAnalysis, archive >>
        /\ out'.event = "ended" /\ out'.ending # "normal" => ~ArchiveAnswered]_vars

\* Two cycles have been recorded, the later one with two events and an
\* archive write that failed: lastAnalysis has no analysisId and agrees with
\* the head of the history.
C37_Witness ==
  /\ Len(History) = 2
  /\ History[1].eventsCount = 2 /\ lastAnalysis.eventsCount = 2
  /\ History[2].eventsCount = 0
  /\ lastAnalysis.analysisId = Undefined
  /\ RunningSet = {}

\* The counters of the service, in the order of the claim; the history
\* holds every record made as long as fewer than MaxHistory were made.
Counters ==
  << stats.criticalAlertsGenerated, stats.highImpactEventsDetected,
     Len(History), totalAnalyses >>

\* C38: whenever no cycle is in progress, criticalAlertsGenerated <=
\* highImpactEventsDetected <= number of records made <= totalAnalyses, and
\* no step of a trigger, a cycle, a cleanup, a read or the clock lowers one
\* of these counters.
C38_CountersOrdered ==
  /\ [](RunningSet = {} /\ totalAnalyses < MaxHistory =>
          \A i \in 1..3 : Counters[i] <= Counters[i + 1])
  /\ [][\A i \in 1..4 : Counters'[i] >= Counters[i]]_vars

\* No cycle is in progress after two of them: one recorded a "major"
\* assessment, the other one ended without a record.
C38_Witness ==
  /\ RunningSet = {}
  /\ Counters = << 1, 1, 1, 2 >>

\* The model call failed or timed out, or its output cannot be parsed or
\* validated.
ModelFailed(res) ==
  \/ res.kind \in {"transport", "nochoices"}
  \/ /\ res.kind = "text"
     /\ \/ res.parsed.kind \in {"unparsable", "nonobject"}
        \/ LacksField(res)
        \/ HasNullNote(res.parsed.events)

\* C39: a cycle whose model call failed, timed out or gave output that cannot
\* be parsed or validated gets the degraded assessment, and when its archive
\* write has been answered it prepends a record with marketInfluence
\* "minimal" and eventsCount 0 and leaves criticalAlertsGenerated and
\* highImpactEventsDetected as they were.
C39_FailureRaisesNoAlert ==
  [][\A t \in Tasks :
       /\ \A res \in LLMUpstream :
            AnalyzeReturn(t, res) /\ ModelFailed(res)
            => task'[t].pc = "store" /\ IsDegraded(task'[t].analysis)
       /\ /\ task[t].pc = "store" /\ task'[t].pc # "store"
          /\ ModelFailed(task[t].response) \/ IsDegraded(task[t].analysis)
          => /\ Len(History') = Len(History) + 1
             /\ History'[1].marketInfluence = "minimal"
             /\ History'[1].eventsCount = 0
             /\ stats'.criticalAlertsGenerated = stats.criticalAlertsGenerated
             /\ stats'.highImpactEventsDetected = stats.highImpactEventsDetected]_vars

\* A cycle whose model call failed has just been recorded after one with a
\* "significant" assessment: the high-impact counter is still 1.
C39_Witness ==
  /\ out.event = "ended" /\ out.ending = "normal"
  /\ out.analysis.error # NoError
  /\ Len(History) = 2
  /\ History[1].marketInfluence = "minimal" /\ History[1].eventsCount = 0
  /\ History[2].marketInfluence = "significant"
  /\ stats.highImpactEventsDetected = 1 /\ stats.criticalAlertsGenerated = 0

\* Everything the service holds, apart from what the last step delivered.
ServiceState ==
  << isRunning, started, isAnalyzing, lastAnalysis, totalAnalyses, stats,
     retainedArticles, lastCleanup, cleanupCount, analysisCount, searchCount,
     archive, now, task, begun >>

\* C40: while isRunning is false, the analysis cron callback starts no cycle
\* and the cleanup cron callback evicts nothing, and both leave the state of
\* the service as it was; stop() leaves a cycle in progress and its flag
\* alone, the step that ends a cycle resets isAnalyzing whether or not the
\* service runs, and a cycle in progress when the service is stopped ends
\* with isAnalyzing false.
C40_StoppedTriggersInert ==
  /\ [][/\ ~isRunning /\ (CronAnalysis \/ CronCleanup) => UNCHANGED ServiceState
        /\ ~isRunning /\ ~Start
           => /\ begun' = begun
              /\ cleanupCount' = cleanupCount
              /\ Len(retainedArticles') >= Len(retainedArticles)
        /\ Stop => UNCHANGED << task, isAnalyzing >>
        /\ \A t \in Tasks : Running(t) /\ ~Running(t)' => ~isAnalyzing']_vars
  /\ \A t \in Tasks : (Running(t) /\ ~isRunning) ~> (~Running(t) /\ ~isAnalyzing)

\* A cycle begun by the cron callback was still in progress when the service
\* was stopped: it has been recorded, the flag is reset, and the store holds
\* what it fetched.
C40_Witness ==
  /\ ~isRunning /\ started
  /\ out.event = "ended" /\ out.ending = "normal" /\ out.kind = "cron"
  /\ ~isAnalyzing /\ RunningSet = {}
  /\ totalAnalyses = 1 /\ Len(History) = 1
  /\ retainedArticles # <<>>

====
